---- MODULE Spec2Model ----
(***************************************************************************)
(* Campus Linker: the client-side script (static/js/script.js), the        *)
(* database schema (nine CREATE TABLE IF NOT EXISTS statements) and the    *)
(* seed script (scripts/02_insert_sample_data.sql), as state machines.     *)
(*                                                                         *)
(* The module holds one specification per part of the program:             *)
(*   SpecPanel     showRegister / showLogin                                *)
(*   SpecValidate  validateForm                                            *)
(*   SpecAlert     the DOMContentLoaded listener and its timers            *)
(*   SpecSubmit    the form submit listener and showLoading                *)
(*   SpecSeed      the schema script and the seed script, run as scripts   *)
(*   SpecDB        the schema under arbitrary single-row inserts           *)
(* Each specification leaves the variables of the other parts at rest.     *)
(***************************************************************************)
EXTENDS Integers, Sequences, FiniteSets, TLC

VARIABLES
    \* ---- panel toggle
    authCard,       \* display of document.querySelector(".auth-card:first-child"), or Absent
    registerForm,   \* display of document.getElementById("register-form"), or Absent
    calls,          \* the calls made so far, oldest first
    thrown,         \* whether the last call ended in an uncaught TypeError
    before,         \* the two displays as they were when the last call began
    \* ---- validateForm
    inputs,         \* the form's input elements: required, value, borderColor
    bordersBefore,  \* the inputs' border colours when the last validateForm call began
    returned,       \* {} before validateForm is called, then {what the last call returned}
    \* ---- timers, alerts, submit button
    now,            \* the page's clock, in ms
    timers,         \* the pending setTimeout callbacks
    loaded,         \* whether DOMContentLoaded has fired
    loadedAt,       \* when it fired
    alerts,         \* the .alert elements: where they are and what was done to them
    button,         \* the form's first button[type=submit]: present, textContent, disabled
    nextTimer,      \* the number of setTimeout calls so far
    submits,        \* the submit events so far: when, and the button's text just before
    \* ---- database
    catalog,        \* the existing tables: table name -> its definition
    rows,           \* table name -> the set of its rows
    nextId,         \* table name -> the next AUTO_INCREMENT value
    script,         \* the script being run: "idle", "schema" or "seed"
    pc,             \* the index of the script's next statement
    force,          \* whether the client goes on after a failed statement
    errs,           \* the errors of the run in progress, in order
    history,        \* the finished runs, oldest first
    atStart,        \* catalog and rows as they were when the run in progress began
    last            \* the last single insert attempted and its outcome

panelVars == <<authCard, registerForm, calls, thrown, before>>
formVars == <<inputs, bordersBefore, returned>>
timerVars == <<now, timers, loaded, loadedAt, alerts, button, nextTimer, submits>>
dbVars == <<catalog, rows, nextId, script, pc, force, errs, history, atStart, last>>
vars == <<panelVars, formVars, timerVars, dbVars>>

Absent == "absent"

(***************************************************************************)
(* Panel toggle: showRegister and showLogin.                               *)
(***************************************************************************)

\* The values an element's inline style.display takes here: unset, or one of
\* the two values the script writes.
Displays == {"", "none", "block"}

\* The longest sequence of calls explored.
MaxCalls == 3

\* Mutant: both elements are looked up (and dereferenced) before either write.
ToggleLookupFirst(a, r, first, second) ==
    IF a = Absent \/ r = Absent
        THEN [authCard |-> a, registerForm |-> r, thrown |-> TRUE]
        ELSE [authCard |-> first, registerForm |-> second, thrown |-> FALSE]

\* One handler of the pair: line 1 writes `first` to the auth card's display,
\* line 2 writes `second` to the register form's. Each line dereferences the
\* result of its lookup unguarded, so an absent element ends the call with a
\* TypeError at that line, with the earlier line's write already done.
Toggle(a, r, first, second) ==
    IF a = Absent
        THEN [authCard |-> a, registerForm |-> r, thrown |-> TRUE]
        ELSE IF r = Absent
            THEN [authCard |-> first, registerForm |-> r, thrown |-> TRUE]
            ELSE [authCard |-> first, registerForm |-> second, thrown |-> FALSE]

showRegisterResult(a, r) == Toggle(a, r, "none", "block")

\* Mutant: showLogin forgets to hide the register form.
showLoginKeepsRegister(a, r) == Toggle(a, r, "block", r)

showLoginResult(a, r) == Toggle(a, r, "block", "none")

PanelCall(name, res) ==
    /\ Len(calls) < MaxCalls
    /\ before' = [authCard |-> authCard, registerForm |-> registerForm]
    /\ authCard' = res.authCard
    /\ registerForm' = res.registerForm
    /\ thrown' = res.thrown
    /\ calls' = Append(calls, name)
    /\ UNCHANGED <<formVars, timerVars, dbVars>>

showRegister == PanelCall("showRegister", showRegisterResult(authCard, registerForm))

showLogin == PanelCall("showLogin", showLoginResult(authCard, registerForm))

PanelIdle ==
    /\ authCard = Absent
    /\ registerForm = Absent
    /\ calls = <<>>
    /\ thrown = FALSE
    /\ before = [authCard |-> Absent, registerForm |-> Absent]

(***************************************************************************)
(* validateForm.                                                           *)
(***************************************************************************)

Red == "#dc3545"
Green == "#28a745"
BorderColors == {"", Red, Green}

\* The most inputs a form has.
MaxInputs == 2

\* The values an input holds: sequences of characters.
Values ==
    { <<>>, <<" ">>, <<"\t", " ">>, <<"a">>, <<" ", "a">>, <<"a", " ">>,
      <<" ", "a", " ">>, <<"a", " ", "b">> }

IsWhiteSpace(c) == c \in {" ", "\t", "\n"}

RECURSIVE TrimStart(_)
TrimStart(s) ==
    IF s # <<>> /\ IsWhiteSpace(Head(s)) THEN TrimStart(Tail(s)) ELSE s

RECURSIVE TrimEnd(_)
TrimEnd(s) ==
    IF s # <<>> /\ IsWhiteSpace(s[Len(s)])
        THEN TrimEnd(SubSeq(s, 1, Len(s) - 1))
        ELSE s

\* Mutant: the value is tested without trimming.
NoTrim(s) == s

\* String.prototype.trim
Trim(s) == TrimEnd(TrimStart(s))

\* The forEach over form.querySelectorAll("input[required]"): every required
\* input gets a border colour by whether its trimmed value is empty.
MarkInputs(ins) ==
    [i \in DOMAIN ins |->
        IF ins[i].required
            THEN [ins[i] EXCEPT !.borderColor =
                    IF Trim(ins[i].value) = <<>> THEN Red ELSE Green]
            ELSE ins[i]]

\* isValid: set to false by every required input whose trimmed value is empty.
IsValid(ins) ==
    \A i \in DOMAIN ins : ins[i].required => Trim(ins[i].value) # <<>>

validateForm ==
    /\ inputs' = MarkInputs(inputs)
    /\ bordersBefore' = [i \in DOMAIN inputs |-> inputs[i].borderColor]
    /\ returned' = {IsValid(inputs)}
    /\ UNCHANGED <<panelVars, timerVars, dbVars>>

InputStates == [required : BOOLEAN, value : Values, borderColor : BorderColors]

FormIdle ==
    /\ inputs = <<>>
    /\ bordersBefore = <<>>
    /\ returned = {}

(***************************************************************************)
(* The event loop: the clock and the setTimeout callbacks.                 *)
(*                                                                         *)
(* Time is in ms. A callback runs when the clock reaches its due time: the *)
(* clock does not pass a pending callback (the event loop is otherwise     *)
(* idle, so a timer is served on time). Callbacks due at the same time run *)
(* in the order of their setTimeout calls.                                 *)
(***************************************************************************)

\* The delay of the callback that fades an alert.
AlertDelay == 5000
\* The delay, from the fade, of the callback that removes it.
RemoveDelay == 300
\* The delay of the callback that restores the submit button.
LoadingDelay == 2000

\* The clock stops here.
MaxTime == 6000
\* The steps the clock advances by.
TimeSteps == {100, 1000}

\* The .alert elements that may come to exist.
MaxAlerts == 2
AlertIds == 1..MaxAlerts

\* The most submit events explored.
MaxSubmits == 2

LoadingText == "Loading..."
ButtonTexts == {"Submit", "Register"}

\* setTimeout(callback, delay), called as the k-th setTimeout of a handler
\* that began with `nextTimer` earlier calls.
NewTimer(k, delay, kind, target, text) ==
    [id |-> nextTimer + k, due |-> now + delay, kind |-> kind,
     target |-> target, text |-> text]

\* The callback the event loop runs next, if any is due.
IsNextDue(t) ==
    /\ t \in timers
    /\ t.due <= now
    /\ \A u \in timers : u.due > t.due \/ (u.due = t.due /\ u.id >= t.id)

Advance ==
    \E d \in TimeSteps :
        /\ now + d <= MaxTime
        /\ \A t \in timers : now + d <= t.due
        /\ now' = now + d
        /\ UNCHANGED <<timers, loaded, loadedAt, alerts, button, nextTimer, submits>>
        /\ UNCHANGED <<panelVars, formVars, dbVars>>

(***************************************************************************)
(* Alert auto-dismiss: the DOMContentLoaded listener.                      *)
(***************************************************************************)

\* An element with class "alert" enters the document: rendered by the server
\* before DOMContentLoaded, or inserted by anything else after it.
AddAlert ==
    \E a \in AlertIds :
        /\ alerts[a].where = "nowhere"
        /\ alerts' = [alerts EXCEPT ![a].where = "dom"]
        /\ UNCHANGED <<now, timers, loaded, loadedAt, button, nextTimer, submits>>
        /\ UNCHANGED <<panelVars, formVars, dbVars>>

\* document.querySelectorAll(".alert") when the listener runs.
AlertsInDom == {a \in AlertIds : alerts[a].where = "dom"}

\* The position of alert a in the NodeList (document order: by id here).
NodeIndex(a) == Cardinality({b \in AlertsInDom : b < a})

\* Mutant: the listener arms its timers for no element but the first.
FirstAlertOnly == {a \in AlertsInDom : NodeIndex(a) = 0}

\* The elements the forEach arms a timer for.
AlertsArmed == AlertsInDom

\* The listener: one setTimeout(..., 5000) per alert in the document.
DOMContentLoaded ==
    /\ ~loaded
    /\ loaded' = TRUE
    /\ loadedAt' = now
    /\ timers' = timers \cup
            {NewTimer(NodeIndex(a), AlertDelay, "fade", a, "") : a \in AlertsArmed}
    /\ nextTimer' = nextTimer + Cardinality(AlertsArmed)
    /\ alerts' = [a \in AlertIds |->
                    [alerts[a] EXCEPT !.atLoad = (alerts[a].where = "dom")]]
    /\ UNCHANGED <<now, button, submits>>
    /\ UNCHANGED <<panelVars, formVars, dbVars>>

\* The outer callback: alert.style.opacity = "0", then setTimeout(..., 300).
FadeAlert ==
    \E t \in timers :
        /\ IsNextDue(t)
        /\ t.kind = "fade"
        /\ alerts' = [alerts EXCEPT ![t.target].opacity = "0"]
        /\ timers' = (timers \ {t}) \cup
                {NewTimer(0, RemoveDelay, "remove", t.target, "")}
        /\ nextTimer' = nextTimer + 1
        /\ UNCHANGED <<now, loaded, loadedAt, button, submits>>
        /\ UNCHANGED <<panelVars, formVars, dbVars>>

\* The inner callback: alert.remove().
RemoveAlert ==
    \E t \in timers :
        /\ IsNextDue(t)
        /\ t.kind = "remove"
        /\ alerts' = [alerts EXCEPT ![t.target].where = "removed",
                                    ![t.target].removes = @ + 1]
        /\ timers' = timers \ {t}
        /\ UNCHANGED <<now, loaded, loadedAt, button, nextTimer, submits>>
        /\ UNCHANGED <<panelVars, formVars, dbVars>>

NoAlerts == [a \in AlertIds |->
                [where |-> "nowhere", atLoad |-> FALSE, opacity |-> "", removes |-> 0]]

(***************************************************************************)
(* Loading state of the submit button: showLoading and the submit listener.*)
(***************************************************************************)

\* showLoading(button): originalText is the button's text now; the callback
\* set for 2000 ms later writes it back and enables the button.
showLoading ==
    /\ button' = [button EXCEPT !.text = LoadingText, !.disabled = TRUE]
    /\ timers' = timers \cup
            {NewTimer(0, LoadingDelay, "restore", 0, button.text)}
    /\ nextTimer' = nextTimer + 1

\* The submit listener of the form.
Submit ==
    /\ Len(submits) < MaxSubmits
    /\ submits' = Append(submits, [at |-> now, textBefore |-> button.text])
    /\ IF button.present
          THEN showLoading
          ELSE UNCHANGED <<button, timers, nextTimer>>
    /\ UNCHANGED <<now, loaded, loadedAt, alerts>>
    /\ UNCHANGED <<panelVars, formVars, dbVars>>

\* The callback of showLoading: the text and the enabled state are put back.
RestoreButton ==
    \E t \in timers :
        /\ IsNextDue(t)
        /\ t.kind = "restore"
        /\ button' = [button EXCEPT !.text = t.text, !.disabled = FALSE]
        /\ timers' = timers \ {t}
        /\ UNCHANGED <<now, loaded, loadedAt, alerts, nextTimer, submits>>
        /\ UNCHANGED <<panelVars, formVars, dbVars>>

NoButton == [present |-> FALSE, text |-> "", disabled |-> FALSE]

TimerIdle ==
    /\ now = 0
    /\ timers = {}
    /\ loaded = FALSE
    /\ loadedAt = 0
    /\ alerts = NoAlerts
    /\ button = NoButton
    /\ nextTimer = 0
    /\ submits = <<>>

(***************************************************************************)
(* The schema: nine CREATE TABLE IF NOT EXISTS statements.                 *)
(*                                                                         *)
(* A column value is <<v>>, and NULL is <<>>.                              *)
(***************************************************************************)

Some(v) == <<v>>

\* The tables, in the order the schema script creates them.
SchemaScript ==
    <<"registration", "admission", "student", "course", "activity", "exam",
      "result", "fee", "social_activity">>

TableNames == {SchemaScript[i] : i \in DOMAIN SchemaScript}

\* The AUTO_INCREMENT primary key of each table.
PrimaryKey(t) ==
    CASE t = "registration" -> "id"
      [] t = "admission" -> "admission_id"
      [] t = "student" -> "student_id"
      [] t = "course" -> "course_id"
      [] t = "activity" -> "activity_id"
      [] t = "exam" -> "exam_id"
      [] t = "result" -> "result_id"
      [] t = "fee" -> "fee_id"
      [] t = "social_activity" -> "activity_id"

\* The columns of each table other than its primary key.
Columns(t) ==
    CASE t = "registration" ->
            {"username", "password", "email_id", "mobile_no", "created_at"}
      [] t = "admission" ->
            {"registration_id", "student_name", "course_name", "email_id",
             "date_of_birth", "father_name", "mother_name", "mobile_no", "aadhar_no",
             "address", "state", "district", "pincode", "gender",
             "previous_year_cgpa", "obtain_marks", "total_marks", "percentage",
             "passing_year", "photo_path", "id_proof_path", "sign_path",
             "previous_year_marklist_path", "status", "created_at"}
      [] t = "student" ->
            {"admission_id", "student_name", "course_name", "activity_id", "created_at"}
      [] t = "course" ->
            {"course_name", "course_code", "duration_years", "created_at"}
      [] t = "activity" ->
            {"student_id", "course_name", "activity_category", "activity_date",
             "created_at"}
      [] t = "exam" -> {"exam_type", "exam_fee", "created_at"}
      [] t = "result" ->
            {"student_id", "exam_id", "course_name", "subject", "obtain_marks",
             "total_marks", "grade", "exam_type", "cgpa", "result_status",
             "created_at"}
      [] t = "fee" ->
            {"admission_id", "student_name", "course_name", "exam_category", "amount",
             "payment_method", "payment_status", "payment_date", "created_at"}
      [] t = "social_activity" ->
            {"student_id", "course_name", "activity_category", "activity_date",
             "description", "created_at"}

\* The columns declared NOT NULL.
NotNullCols(t) ==
    CASE t = "registration" -> {"username", "password", "email_id", "mobile_no"}
      [] t = "admission" ->
            {"student_name", "course_name", "email_id", "date_of_birth",
             "father_name", "mother_name", "mobile_no", "aadhar_no", "address",
             "state", "district", "pincode", "gender"}
      [] t = "student" -> {"student_name", "course_name"}
      [] t = "course" -> {"course_name", "course_code", "duration_years"}
      [] t = "activity" -> {"course_name", "activity_category", "activity_date"}
      [] t = "exam" -> {"exam_type", "exam_fee"}
      [] t = "result" ->
            {"course_name", "subject", "obtain_marks", "total_marks", "result_status"}
      [] t = "fee" -> {"student_name", "course_name", "amount", "payment_method"}
      [] t = "social_activity" -> {"course_name", "activity_category", "activity_date"}

\* Mutant: course.course_code is not declared UNIQUE.
UniqueColsButCourseCode(t) ==
    CASE t = "registration" -> {"username", "email_id"}
      [] t = "admission" -> {"aadhar_no"}
      [] OTHER -> {}

\* Mutant: admission.aadhar_no is not declared UNIQUE.
UniqueColsButAadhar(t) ==
    CASE t = "registration" -> {"username", "email_id"}
      [] t = "course" -> {"course_code"}
      [] OTHER -> {}

\* The columns declared UNIQUE.
UniqueCols(t) ==
    CASE t = "registration" -> {"username", "email_id"}
      [] t = "admission" -> {"aadhar_no"}
      [] t = "course" -> {"course_code"}
      [] OTHER -> {}

\* The FOREIGN KEY clauses: column -> the table whose primary key it names.
ForeignKeys(t) ==
    CASE t = "admission" -> {[column |-> "registration_id", ref |-> "registration"]}
      [] t = "student" -> {[column |-> "admission_id", ref |-> "admission"]}
      [] t = "activity" -> {[column |-> "student_id", ref |-> "student"]}
      [] t = "result" -> {[column |-> "student_id", ref |-> "student"],
                          [column |-> "exam_id", ref |-> "exam"]}
      [] t = "fee" -> {[column |-> "admission_id", ref |-> "admission"]}
      [] t = "social_activity" -> {[column |-> "student_id", ref |-> "student"]}
      [] OTHER -> {}

\* The ENUM columns and their members.
EnumCols(t) ==
    CASE t = "admission" ->
            {[column |-> "gender", members |-> {"Male", "Female", "Other"}],
             [column |-> "status", members |-> {"Pending", "Approved", "Rejected"}]}
      [] t = "result" ->
            {[column |-> "result_status", members |-> {"Pass", "Fail", "ATKT"}]}
      [] t = "fee" ->
            {[column |-> "payment_status", members |-> {"Pending", "Paid", "Failed"}]}
      [] OTHER -> {}

\* The VARCHAR columns and their lengths.
VarcharCols(t) ==
    CASE t = "registration" ->
            {[column |-> "username", length |-> 50], [column |-> "password", length |-> 255],
             [column |-> "email_id", length |-> 100], [column |-> "mobile_no", length |-> 15]}
      [] t = "admission" ->
            {[column |-> "student_name", length |-> 100],
             [column |-> "course_name", length |-> 100],
             [column |-> "email_id", length |-> 100],
             [column |-> "father_name", length |-> 100],
             [column |-> "mother_name", length |-> 100],
             [column |-> "mobile_no", length |-> 15],
             [column |-> "aadhar_no", length |-> 12],
             [column |-> "state", length |-> 50], [column |-> "district", length |-> 50],
             [column |-> "pincode", length |-> 6],
             [column |-> "photo_path", length |-> 255],
             [column |-> "id_proof_path", length |-> 255],
             [column |-> "sign_path", length |-> 255],
             [column |-> "previous_year_marklist_path", length |-> 255]}
      [] t = "student" ->
            {[column |-> "student_name", length |-> 100],
             [column |-> "course_name", length |-> 100]}
      [] t = "course" ->
            {[column |-> "course_name", length |-> 100],
             [column |-> "course_code", length |-> 20]}
      [] t = "activity" ->
            {[column |-> "course_name", length |-> 100],
             [column |-> "activity_category", length |-> 100]}
      [] t = "exam" -> {[column |-> "exam_type", length |-> 50]}
      [] t = "result" ->
            {[column |-> "course_name", length |-> 100],
             [column |-> "subject", length |-> 100], [column |-> "grade", length |-> 2],
             [column |-> "exam_type", length |-> 50]}
      [] t = "fee" ->
            {[column |-> "student_name", length |-> 100],
             [column |-> "course_name", length |-> 100],
             [column |-> "exam_category", length |-> 100],
             [column |-> "payment_method", length |-> 50]}
      [] t = "social_activity" ->
            {[column |-> "course_name", length |-> 100],
             [column |-> "activity_category", length |-> 100]}

\* The value a column takes when an insert does not name it.
DefaultValue(t, c) ==
    IF c = "created_at" THEN Some("CURRENT_TIMESTAMP")
    ELSE IF (t = "admission" /\ c = "status") \/ (t = "fee" /\ c = "payment_status")
        THEN Some("Pending")
        ELSE <<>>

\* What a table's CREATE TABLE statement defines.
TableDef(t) ==
    [primaryKey |-> PrimaryKey(t), columns |-> Columns(t), notNull |-> NotNullCols(t),
     unique |-> UniqueCols(t), foreignKeys |-> ForeignKeys(t)]

NoError == {}

\* Mutant: a plain CREATE TABLE, which fails on a table that exists.
CreateTablePlain(cat, t) ==
    IF t \in DOMAIN cat
        THEN [catalog |-> cat, created |-> FALSE,
              errors |-> {[kind |-> "table exists", table |-> t, column |-> ""]}]
        ELSE [catalog |-> cat @@ (t :> TableDef(t)), created |-> TRUE, errors |-> NoError]

\* CREATE TABLE IF NOT EXISTS t: nothing happens when t exists; otherwise t is
\* created, provided the tables its foreign keys name exist.
CreateTableIfNotExists(cat, t) ==
    IF t \in DOMAIN cat
        THEN [catalog |-> cat, created |-> FALSE, errors |-> NoError]
        ELSE LET missing == {fk \in ForeignKeys(t) : fk.ref \notin DOMAIN cat \cup {t}}
             IN  IF missing # {}
                    THEN [catalog |-> cat, created |-> FALSE,
                          errors |-> {[kind |-> "no referenced table", table |-> t,
                                       column |-> fk.column] : fk \in missing}]
                    ELSE [catalog |-> cat @@ (t :> TableDef(t)), created |-> TRUE,
                          errors |-> NoError]

(***************************************************************************)
(* INSERT.                                                                 *)
(***************************************************************************)

\* The row an insert of `vals` (column -> value) stores under primary key id.
StoredRow(t, id, vals) ==
    [c \in Columns(t) \cup {PrimaryKey(t)} |->
        IF c = PrimaryKey(t) THEN Some(id)
        ELSE IF c \in DOMAIN vals THEN vals[c]
        ELSE DefaultValue(t, c)]

\* The foreign keys of t that `row` violates: a reference that is not NULL and
\* names no row of the referenced table.
ForeignKeyViolations(t, row, tables) ==
    {[kind |-> "foreign key", table |-> t, column |-> fk.column] :
        fk \in {f \in ForeignKeys(t) :
                    /\ row[f.column] # <<>>
                    /\ \A r \in tables[f.ref] : r[PrimaryKey(f.ref)] # row[f.column]}}

\* The UNIQUE columns of t on which `row` repeats a row of `existing`.
UniqueViolations(t, row, existing) ==
    {[kind |-> "duplicate", table |-> t, column |-> c] :
        c \in {u \in UniqueCols(t) :
                    row[u] # <<>> /\ \E r \in existing : r[u] = row[u]}}

\* NOT NULL, VARCHAR length and ENUM membership.
ColumnViolations(t, row) ==
    {[kind |-> "not null", table |-> t, column |-> c] :
        c \in {n \in NotNullCols(t) : row[n] = <<>>}}
    \cup
    {[kind |-> "too long", table |-> t, column |-> v.column] :
        v \in {w \in VarcharCols(t) :
                    row[w.column] # <<>> /\ Len(row[w.column][1]) > w.length}}
    \cup
    {[kind |-> "not in enum", table |-> t, column |-> e.column] :
        e \in {f \in EnumCols(t) :
                    row[f.column] # <<>> /\ row[f.column][1] \notin f.members}}

\* Every constraint of t that storing `row` would violate.
Violations(t, row, tables) ==
    ColumnViolations(t, row)
        \cup UniqueViolations(t, row, tables[t])
        \cup ForeignKeyViolations(t, row, tables)

\* INSERT INTO t ... VALUES v1, v2, ...: the rows are stored one after the
\* other; the first that violates a constraint ends the statement.
RECURSIVE InsertRows(_, _, _, _)
InsertRows(t, values, tables, id) ==
    IF values = <<>>
        THEN [rows |-> tables[t], nextId |-> id, errors |-> NoError]
        ELSE LET row == StoredRow(t, id, Head(values))
                 bad == Violations(t, row, tables)
             IN  IF bad # {}
                    THEN [rows |-> tables[t], nextId |-> id, errors |-> bad]
                    ELSE InsertRows(t, Tail(values),
                                    [tables EXCEPT ![t] = @ \cup {row}], id + 1)

\* The statement as a whole: a failed statement leaves the table as it was.
Insert(t, values) ==
    IF t \notin DOMAIN catalog
        THEN [rows |-> {}, nextId |-> 1,
              errors |-> {[kind |-> "no table", table |-> t, column |-> ""]}]
        ELSE LET res == InsertRows(t, values, rows, nextId[t])
             IN  IF res.errors # NoError
                    THEN [rows |-> rows[t], nextId |-> nextId[t], errors |-> res.errors]
                    ELSE res

(***************************************************************************)
(* The seed script: seven INSERT statements.                               *)
(***************************************************************************)

\* One row of a VALUES list: the statement's columns, in order, with values.
RowOf(cols, vals) ==
    [c \in {cols[i] : i \in DOMAIN cols} |->
        Some(vals[CHOOSE i \in DOMAIN cols : cols[i] = c])]

CourseCols == <<"course_name", "course_code", "duration_years">>
ExamCols == <<"exam_type", "exam_fee">>
RegistrationCols == <<"username", "password", "email_id", "mobile_no">>
AdmissionCols ==
    <<"registration_id", "student_name", "course_name", "email_id", "date_of_birth",
      "father_name", "mother_name", "mobile_no", "aadhar_no", "address", "state",
      "district", "pincode", "gender", "previous_year_cgpa", "obtain_marks",
      "total_marks", "percentage", "passing_year", "status">>
StudentCols == <<"admission_id", "student_name", "course_name">>
ResultCols ==
    <<"student_id", "exam_id", "course_name", "subject", "obtain_marks", "total_marks",
      "grade", "exam_type", "cgpa", "result_status">>
FeeCols ==
    <<"admission_id", "student_name", "course_name", "exam_category", "amount",
      "payment_method", "payment_status">>

SeedCourses ==
    <<RowOf(CourseCols, <<"Bachelor of Business Administration", "BBA", 3>>),
      RowOf(CourseCols, <<"Bachelor of Commerce", "BCOM", 3>>),
      RowOf(CourseCols, <<"Bachelor of Science", "BSC", 3>>),
      RowOf(CourseCols, <<"Master of Business Administration", "MBA", 2>>),
      RowOf(CourseCols, <<"Master of Commerce", "MCOM", 2>>),
      RowOf(CourseCols, <<"Master of Science", "MSC", 2>>),
      RowOf(CourseCols, <<"Data Science", "DS", 2>>)>>

SeedExams ==
    <<RowOf(ExamCols, <<"Semester 1", "1500.00">>),
      RowOf(ExamCols, <<"Semester 2", "1500.00">>),
      RowOf(ExamCols, <<"Semester 3", "1500.00">>),
      RowOf(ExamCols, <<"Semester 4", "1500.00">>),
      RowOf(ExamCols, <<"Semester 5", "1500.00">>),
      RowOf(ExamCols, <<"Semester 6", "1500.00">>),
      RowOf(ExamCols, <<"Final Exam", "2000.00">>)>>

SeedRegistrations ==
    <<RowOf(RegistrationCols,
            <<"admin", "admin123", "admin@skylink.edu", "9876543210">>),
      RowOf(RegistrationCols,
            <<"student1", "pass123", "student1@skylink.edu", "9876543211">>)>>

\* Mutant: the admission names registration 3.
SeedAdmissionOfThird ==
    <<RowOf(AdmissionCols,
            <<3, "John Doe", "Bachelor of Business Administration",
              "john.doe@skylink.edu", "2000-05-15", "Robert Doe", "Mary Doe",
              "9876543211", "123456789012", "123 Main Street, City Center",
              "Maharashtra", "Mumbai", "400001", "Male", "8.5", 450, 500, "90.0",
              2022, "Approved">>)>>

SeedAdmissions ==
    <<RowOf(AdmissionCols,
            <<2, "John Doe", "Bachelor of Business Administration",
              "john.doe@skylink.edu", "2000-05-15", "Robert Doe", "Mary Doe",
              "9876543211", "123456789012", "123 Main Street, City Center",
              "Maharashtra", "Mumbai", "400001", "Male", "8.5", 450, 500, "90.0",
              2022, "Approved">>)>>

SeedStudents ==
    <<RowOf(StudentCols, <<1, "John Doe", "Bachelor of Business Administration">>)>>

SeedResults ==
    <<RowOf(ResultCols,
            <<1, 1, "Bachelor of Business Administration", "Business Mathematics",
              85, 100, "A", "Semester 1", "8.5", "Pass">>)>>

SeedFees ==
    <<RowOf(FeeCols,
            <<1, "John Doe", "Bachelor of Business Administration", "Semester 1",
              "1500.00", "Online", "Paid">>)>>

\* The statements of the seed script, in order.
SeedScript ==
    <<[table |-> "course", values |-> SeedCourses],
      [table |-> "exam", values |-> SeedExams],
      [table |-> "registration", values |-> SeedRegistrations],
      [table |-> "admission", values |-> SeedAdmissions],
      [table |-> "student", values |-> SeedStudents],
      [table |-> "result", values |-> SeedResults],
      [table |-> "fee", values |-> SeedFees]>>

(***************************************************************************)
(* Running the two scripts. A script is a sequence of statements sent to   *)
(* the server one by one; whether the client stops at the first statement  *)
(* that fails or goes on to the next is the client's choice (`force`).     *)
(***************************************************************************)

\* The most script runs explored.
MaxRuns == 3

NoInsert == [table |-> "", row |-> <<>>, errors |-> NoError, rowsBefore |-> {}]

ScriptLength(s) == IF s = "schema" THEN Len(SchemaScript) ELSE Len(SeedScript)

\* The run in progress has no statement left to send.
RunOver == pc > ScriptLength(script) \/ (errs # <<>> /\ ~force)

\* The client is started on a script, with or without --force.
StartRun(s) ==
    /\ script = "idle"
    /\ Len(history) < MaxRuns
    /\ script' = s
    /\ pc' = 1
    /\ force' \in BOOLEAN
    /\ errs' = <<>>
    /\ atStart' = [catalog |-> catalog, rows |-> rows]
    /\ UNCHANGED <<catalog, rows, nextId, history, last>>
    /\ UNCHANGED <<panelVars, formVars, timerVars>>

\* The client is started on the schema script.
StartSchema == StartRun("schema")

\* The client is started on the seed script.
StartSeed == StartRun("seed")

\* The next statement of the schema script.
CreateTable ==
    /\ script = "schema"
    /\ ~RunOver
    /\ LET t == SchemaScript[pc]
           res == CreateTableIfNotExists(catalog, t)
       IN  /\ catalog' = res.catalog
           /\ rows' = IF res.created THEN rows @@ (t :> {}) ELSE rows
           /\ nextId' = IF res.created THEN nextId @@ (t :> 1) ELSE nextId
           /\ errs' = IF res.errors = NoError
                        THEN errs
                        ELSE Append(errs, [statement |-> pc, table |-> t,
                                           errors |-> res.errors])
    /\ pc' = pc + 1
    /\ UNCHANGED <<script, force, history, atStart, last>>
    /\ UNCHANGED <<panelVars, formVars, timerVars>>

\* The next statement of the seed script.
SeedInsert ==
    /\ script = "seed"
    /\ ~RunOver
    /\ LET stmt == SeedScript[pc]
           t == stmt.table
           res == Insert(t, stmt.values)
       IN  /\ rows' = IF t \in DOMAIN catalog THEN [rows EXCEPT ![t] = res.rows] ELSE rows
           /\ nextId' = IF t \in DOMAIN catalog
                            THEN [nextId EXCEPT ![t] = res.nextId]
                            ELSE nextId
           /\ errs' = IF res.errors = NoError
                        THEN errs
                        ELSE Append(errs, [statement |-> pc, table |-> t,
                                           errors |-> res.errors])
    /\ pc' = pc + 1
    /\ UNCHANGED <<catalog, script, force, history, atStart, last>>
    /\ UNCHANGED <<panelVars, formVars, timerVars>>

\* The client is done with the script.
EndRun ==
    /\ script # "idle"
    /\ RunOver
    /\ history' = Append(history, [script |-> script, force |-> force, errs |-> errs,
                                   catalogBefore |-> atStart.catalog,
                                   rowsBefore |-> atStart.rows])
    /\ script' = "idle"
    /\ UNCHANGED <<catalog, rows, nextId, pc, force, errs, atStart, last>>
    /\ UNCHANGED <<panelVars, formVars, timerVars>>

(***************************************************************************)
(* Single inserts by the application, on the schema as created.            *)
(***************************************************************************)

\* The most rows the tables hold together.
MaxRows == 2

TotalRows(tables) ==
    LET RECURSIVE Sum(_)
        Sum(i) == IF i = 0 THEN 0 ELSE Cardinality(tables[SchemaScript[i]]) + Sum(i - 1)
    IN  Sum(Len(SchemaScript))

\* The references an insert may carry: NULL, or a primary key value.
Refs == {<<>>, Some(1), Some(2)}

Override(row, c, v) == [row EXCEPT ![c] = v]

ActivityRow ==
    RowOf(<<"student_id", "course_name", "activity_category", "activity_date">>,
          <<1, "Bachelor of Commerce", "Sports", "2024-01-15">>)

\* The rows the application may try to insert into t: the seed's first row of
\* that table (or an activity), with its unique and foreign key columns varied.
Candidates(t) ==
    CASE t = "registration" ->
            {Override(Override(SeedRegistrations[1], "username", Some(u)),
                      "email_id", Some(e)) :
                u \in {"admin", "student1"},
                e \in {"admin@skylink.edu", "student1@skylink.edu"}}
      [] t = "admission" ->
            {Override(Override(SeedAdmissions[1], "aadhar_no", Some(n)),
                      "registration_id", r) :
                n \in {"123456789012", "210987654321"}, r \in Refs}
      [] t = "student" ->
            {Override(SeedStudents[1], "admission_id", r) : r \in Refs}
      [] t = "course" ->
            {Override(SeedCourses[1], "course_code", Some(c)) : c \in {"BBA", "BCOM"}}
      [] t = "exam" -> {SeedExams[1]}
      [] t = "result" ->
            {Override(Override(SeedResults[1], "student_id", r), "exam_id", x) :
                r \in Refs, x \in Refs}
      [] t = "fee" ->
            {Override(SeedFees[1], "admission_id", r) : r \in Refs}
      [] t \in {"activity", "social_activity"} ->
            {Override(ActivityRow, "student_id", r) : r \in Refs}

\* INSERT INTO t ... VALUES (one row).
InsertRow ==
    \E t \in TableNames :
        \E vals \in Candidates(t) :
            /\ script = "idle"
            /\ TotalRows(rows) < MaxRows
            /\ LET res == Insert(t, <<vals>>)
               IN  /\ rows' = [rows EXCEPT ![t] = res.rows]
                   /\ nextId' = [nextId EXCEPT ![t] = res.nextId]
                   /\ last' = [table |-> t, row |-> StoredRow(t, nextId[t], vals),
                               errors |-> res.errors, rowsBefore |-> rows[t]]
            /\ UNCHANGED <<catalog, script, pc, force, errs, history, atStart>>
            /\ UNCHANGED <<panelVars, formVars, timerVars>>

\* The catalog after the schema script has run on an empty database.
RECURSIVE CatalogAfter(_)
CatalogAfter(n) ==
    IF n = 0 THEN <<>>
    ELSE CreateTableIfNotExists(CatalogAfter(n - 1), SchemaScript[n]).catalog

NoRun == [catalog |-> <<>>, rows |-> <<>>]

DbIdle ==
    /\ catalog = <<>>
    /\ rows = <<>>
    /\ nextId = <<>>
    /\ script = "idle"
    /\ pc = 0
    /\ force = FALSE
    /\ errs = <<>>
    /\ history = <<>>
    /\ atStart = NoRun
    /\ last = NoInsert

(***************************************************************************)
(* Specifications.                                                         *)
(***************************************************************************)

InitPanel ==
    /\ authCard \in Displays \cup {Absent}
    /\ registerForm \in Displays \cup {Absent}
    /\ calls = <<>>
    /\ thrown = FALSE
    /\ before = [authCard |-> authCard, registerForm |-> registerForm]
    /\ FormIdle /\ TimerIdle /\ DbIdle

NextPanel == showRegister \/ showLogin

SpecPanel == InitPanel /\ [][NextPanel]_vars

InitValidate ==
    /\ \E n \in 0..MaxInputs : inputs \in [1..n -> InputStates]
    /\ bordersBefore = [i \in DOMAIN inputs |-> inputs[i].borderColor]
    /\ returned = {}
    /\ PanelIdle /\ TimerIdle /\ DbIdle

NextValidate == validateForm

SpecValidate == InitValidate /\ [][NextValidate]_vars

InitAlert ==
    /\ now = 0
    /\ timers = {}
    /\ loaded = FALSE
    /\ loadedAt = 0
    /\ alerts = NoAlerts
    /\ button = NoButton
    /\ nextTimer = 0
    /\ submits = <<>>
    /\ PanelIdle /\ FormIdle /\ DbIdle

NextAlert == AddAlert \/ DOMContentLoaded \/ FadeAlert \/ RemoveAlert \/ Advance

SpecAlert == InitAlert /\ [][NextAlert]_vars

InitSubmit ==
    /\ now = 0
    /\ timers = {}
    /\ loaded = FALSE
    /\ loadedAt = 0
    /\ alerts = NoAlerts
    /\ \E present \in BOOLEAN, text \in ButtonTexts :
            button = [present |-> present,
                      text |-> IF present THEN text ELSE "",
                      disabled |-> FALSE]
    /\ nextTimer = 0
    /\ submits = <<>>
    /\ PanelIdle /\ FormIdle /\ DbIdle

NextSubmit == Submit \/ RestoreButton \/ Advance

SpecSubmit == InitSubmit /\ [][NextSubmit]_vars

InitSeed ==
    /\ DbIdle
    /\ PanelIdle /\ FormIdle /\ TimerIdle

NextSeed == StartSchema \/ StartSeed \/ CreateTable \/ SeedInsert \/ EndRun

SpecSeed == InitSeed /\ [][NextSeed]_vars

InitDB ==
    /\ catalog = CatalogAfter(Len(SchemaScript))
    /\ rows = [t \in TableNames |-> {}]
    /\ nextId = [t \in TableNames |-> 1]
    /\ script = "idle"
    /\ pc = 0
    /\ force = FALSE
    /\ errs = <<>>
    /\ history = <<>>
    /\ atStart = NoRun
    /\ last = NoInsert
    /\ PanelIdle /\ FormIdle /\ TimerIdle

NextDB == InsertRow

SpecDB == InitDB /\ [][NextDB]_vars

(***************************************************************************)
(* Properties of the client-side script.                                   *)
(***************************************************************************)

BothPresent == authCard # Absent /\ registerForm # Absent
LastCall == calls[Len(calls)]

\* C9: with the first auth card and the register form both present, after any
\* non-empty sequence of showRegister and showLogin calls, from any earlier
\* displays, exactly one panel is displayed: the register form (and the card
\* hidden) if the last call was showRegister, the card (and the form hidden)
\* if it was showLogin; and the call did not throw.
C9_LastCallDecides ==
    (calls # <<>> /\ BothPresent) =>
        /\ ~thrown
        /\ LastCall = "showRegister" => (authCard = "none" /\ registerForm = "block")
        /\ LastCall = "showLogin" => (authCard = "block" /\ registerForm = "none")

C9_Witness ==
    /\ BothPresent
    /\ calls = <<"showLogin", "showRegister", "showLogin">>
    /\ before = [authCard |-> "none", registerForm |-> "block"]
    /\ authCard = "block"
    /\ registerForm = "none"

\* C10: with the auth card present and the register form absent, a call ends
\* in an uncaught error after it has written the card's display (none for
\* showRegister, block for showLogin), so a failed showRegister leaves no
\* panel displayed; with the auth card absent the call throws and changes
\* nothing.
C10_ThrowsAfterFirstWrite ==
    calls # <<>> =>
        /\ (before.authCard # Absent /\ before.registerForm = Absent) =>
                /\ thrown
                /\ registerForm = Absent
                /\ authCard = IF LastCall = "showRegister" THEN "none" ELSE "block"
        /\ before.authCard = Absent =>
                /\ thrown
                /\ authCard = before.authCard
                /\ registerForm = before.registerForm

C10_Witness ==
    /\ calls = <<"showRegister">>
    /\ before = [authCard |-> "block", registerForm |-> Absent]
    /\ thrown
    /\ authCard = "none"
    /\ registerForm = Absent

\* A value is empty after trimming exactly when it holds nothing but white space.
OnlyWhiteSpace(v) == \A k \in 1..Len(v) : v[k] \in {" ", "\t", "\n"}

\* C5: once validateForm has run, it has returned true exactly when no
\* required input holds only white space; every required input that holds
\* only white space has the red border and every other required input the
\* green one, whatever their order; an input that is not required keeps the
\* border it had and does not count.
C5_ValidateForm ==
    returned # {} =>
        /\ returned = {\A i \in DOMAIN inputs :
                            inputs[i].required => ~OnlyWhiteSpace(inputs[i].value)}
        /\ \A i \in DOMAIN inputs :
            /\ (inputs[i].required /\ OnlyWhiteSpace(inputs[i].value))
                    => inputs[i].borderColor = Red
            /\ (inputs[i].required /\ ~OnlyWhiteSpace(inputs[i].value))
                    => inputs[i].borderColor = Green
            /\ ~inputs[i].required => inputs[i].borderColor = bordersBefore[i]

\* Two required inputs, the first holding only white space and the second
\* filled: false is returned, the first is red and the second green.
C5_Witness ==
    /\ Len(inputs) = 2
    /\ inputs[1] = [required |-> TRUE, value |-> <<"\t", " ">>, borderColor |-> Red]
    /\ inputs[2] = [required |-> TRUE, value |-> <<" ", "a">>, borderColor |-> Green]
    /\ bordersBefore = <<Green, "">>
    /\ returned = {FALSE}

\* Every callback that is due has run.
Settled == \A t \in timers : t.due > now

C8_LoadingUndone ==
    /\ button.present =>
        /\ \A i \in DOMAIN submits :
                now < submits[i].at + 2000 =>
                    (button.disabled /\ button.text = LoadingText)
        /\ (submits # <<>> /\ timers = {}) =>
                (~button.disabled /\ button.text = submits[1].textBefore)
    /\ ~button.present => (button = NoButton /\ timers = {})

(***************************************************************************)
(* Properties of the schema and the seed script.                           *)
(***************************************************************************)

\* The schema script has run to its end on this catalog.
SchemaComplete(cat) == DOMAIN cat = TableNames

Runs(s) == {i \in DOMAIN history : history[i].script = s}
LastRun == history[Len(history)]

\* The state a seed run leaves, when it was the n-th seed run, every seed run
\* before it began on the complete schema and met no error, and nothing else
\* but schema runs came before.
AfterSeedRun(n) ==
    /\ script = "idle"
    /\ history # <<>>
    /\ LastRun.script = "seed"
    /\ Cardinality(Runs("seed")) = n
    /\ \A i \in Runs("seed") :
            /\ SchemaComplete(history[i].catalogBefore)
            /\ i < Len(history) => history[i].errs = <<>>

\* Every foreign key value stored names a row of the table it refers to.
StoredReferencesResolve ==
    \A t \in DOMAIN rows : \A row \in rows[t] : \A fk \in ForeignKeys(t) :
        row[fk.column] # <<>> =>
            \E r \in rows[fk.ref] : r[PrimaryKey(fk.ref)] = row[fk.column]

\* C2: schema creation and then the seed script, run once on an empty
\* database: no statement of the seed script violates a constraint, every
\* hard-coded reference (registration 2, admission 1, student 1, exam 1) names
\* a row that exists, and registration holds 2 rows and course 7.
C2_SeedOnce ==
    AfterSeedRun(1) =>
        /\ LastRun.errs = <<>>
        /\ Cardinality(rows["registration"]) = 2
        /\ Cardinality(rows["course"]) = 7
        /\ StoredReferencesResolve
        /\ \E a \in rows["admission"] :
                /\ a.registration_id = Some(2)
                /\ \E r \in rows["registration"] :
                        r.id = Some(2) /\ r.username = Some("student1")
        /\ \E st \in rows["student"] :
                /\ st.admission_id = Some(1)
                /\ \E a \in rows["admission"] : a.admission_id = Some(1)
        /\ \E res \in rows["result"] :
                /\ res.student_id = Some(1) /\ res.exam_id = Some(1)
                /\ \E st \in rows["student"] : st.student_id = Some(1)
                /\ \E x \in rows["exam"] : x.exam_id = Some(1)
        /\ \E f \in rows["fee"] : f.admission_id = Some(1)

C2_Witness ==
    /\ AfterSeedRun(1)
    /\ Len(history) = 2
    /\ history[1].script = "schema"
    /\ Cardinality(rows["exam"]) = 7
    /\ Cardinality(rows["fee"]) = 1

DuplicateOf(t, c) == [kind |-> "duplicate", table |-> t, column |-> c]

\* C1, as claimed: the seed script run a second time fails, and the first
\* statement rejected is the insert into registration, for a duplicate
\* username.
C1_FailsOnUsername ==
    AfterSeedRun(2) =>
        /\ LastRun.errs # <<>>
        /\ LastRun.errs[1].table = "registration"
        /\ DuplicateOf("registration", "username") \in LastRun.errs[1].errors

\* C1, amended: the seed script run a second time fails, and the first
\* statement rejected is the script's first, the insert into course, for a
\* duplicate course_code and nothing else.
C1_FailsOnCourseCode ==
    AfterSeedRun(2) =>
        /\ LastRun.errs # <<>>
        /\ LastRun.errs[1].statement = 1
        /\ LastRun.errs[1].table = "course"
        /\ LastRun.errs[1].errors = {DuplicateOf("course", "course_code")}

\* The rerun by a client that stops at the first failed statement.
C1_Witness ==
    /\ AfterSeedRun(2)
    /\ ~LastRun.force
    /\ Len(LastRun.errs) = 1
    /\ Cardinality(rows["course"]) = 7
    /\ Cardinality(rows["registration"]) = 2

\* A schema run that began on the complete schema has raised no error and has
\* left every table's definition and every row as they were.
SchemaRerunChangesNothing ==
    /\ (script = "schema" /\ SchemaComplete(atStart.catalog)) =>
            /\ errs = <<>>
            /\ catalog = atStart.catalog
            /\ rows = atStart.rows
    /\ \A i \in Runs("schema") :
            SchemaComplete(history[i].catalogBefore) => history[i].errs = <<>>

\* C3, as claimed: the schema script is idempotent, and its tables are eight.
C3_IdempotentEightTables ==
    /\ SchemaRerunChangesNothing
    /\ SchemaComplete(catalog) => Cardinality(DOMAIN catalog) = 8

\* C3, amended: the schema script is idempotent (run again on any state
\* reached after one run of it, rows or no rows, it raises no error and
\* changes no definition and no row), and its tables are nine.
C3_IdempotentNineTables ==
    /\ SchemaRerunChangesNothing
    /\ SchemaComplete(catalog) =>
            /\ Cardinality(DOMAIN catalog) = 9
            /\ \A t \in TableNames : catalog[t] = TableDef(t)

\* The schema script at its end, run again on the seeded database.
C3_Witness ==
    /\ script = "schema"
    /\ pc > Len(SchemaScript)
    /\ SchemaComplete(atStart.catalog)
    /\ Cardinality(atStart.rows["course"]) = 7
    /\ Cardinality(rows["registration"]) = 2

NoTwoShare(t, c) ==
    \A r1, r2 \in rows[t] : r1[c] = r2[c] => r1 = r2

Repeats(t, c) ==
    /\ last.table = t
    /\ \E r \in last.rowsBefore : r[c] = last.row[c]

\* C4: no two registration rows share a username or an email_id, no two
\* admission rows share an aadhar_no; an insert that repeats one of these
\* values is rejected, for that column, and leaves the table's rows unchanged.
C4_UniqueColumns ==
    /\ NoTwoShare("registration", "username")
    /\ NoTwoShare("registration", "email_id")
    /\ NoTwoShare("admission", "aadhar_no")
    /\ \A k \in {<<"registration", "username">>, <<"registration", "email_id">>,
                 <<"admission", "aadhar_no">>} :
            Repeats(k[1], k[2]) =>
                /\ DuplicateOf(k[1], k[2]) \in last.errors
                /\ rows[k[1]] = last.rowsBefore

\* A second admission with the aadhar_no of the first, rejected.
C4_Witness ==
    /\ Repeats("admission", "aadhar_no")
    /\ last.errors = {DuplicateOf("admission", "aadhar_no")}
    /\ Cardinality(rows["admission"]) = 1

\* C7: every student row belongs to an existing admission row, every admission
\* row to an existing registration row, every fee row to an existing admission
\* row, every activity and social_activity row to an existing student row,
\* every result row to an existing student row and an existing exam row.
C7_EveryRowBelongs ==
    \A t \in DOMAIN rows : \A row \in rows[t] : \A fk \in ForeignKeys(t) :
        \E r \in rows[fk.ref] : r[PrimaryKey(fk.ref)] = row[fk.column]

====
